---------------------------- MODULE Spec2Model ----------------------------
(***************************************************************************)
(* Command registration of ShoobBotTS: the global reconciliation pass      *)
(* (loadCommands, src/src/commands/index.ts), the per-guild pass            *)
(* (syncGuildCommands, src/src/utils/guild_commands.ts) and the fan-out     *)
(* over the cached guilds (initializeGuildCommandSyncer).                   *)
(*                                                                         *)
(* One action is one stretch of code between two awaits.  The ledger is the *)
(* two Sequelize tables (commands, guild_commands), the remote registry is  *)
(* what Discord holds per scope after the last accepted rest.put.           *)
(***************************************************************************)
EXTENDS Integers, Sequences, FiniteSets, TLC

\* ------------------------------------------------------------- bounds
\* Number of process starts (deployments) a behaviour goes through.
MaxRuns == 2
\* Versions of a command's payload (description, options) across deployments.
MaxPayload == 2
\* Failures the environment injects in a behaviour: a ledger access that
\* throws, a rejected rest.put, a failed guilds.fetch.
MaxFaults == 1

\* ------------------------------------------------------------- scopes
GLOBAL == "global"
Guilds == {"G1", "G2"}
Scopes == {GLOBAL} \cup Guilds

\* ------------------------------------------------------- command files
\* A command file of src/commands: its base name, and the data it exports
\* (data.name, and the rest of the data abstracted to a payload version).
CommandFile(f, n, p) == [file |-> f, data |-> [name |-> n, payload |-> p]]

\* The directories a deployment can ship, in readdir order: one command in
\* any of its versions, or two commands (so that deployments add, remove and
\* change a command, or leave the set as it is).
Deployments ==
    { <<CommandFile("ping", "ping", p)>> : p \in 1..MaxPayload }
    \cup
    { <<CommandFile("echo", "echo", 1), CommandFile("ping", "ping", 1)>> }

\* ------------------------------------------------------------ checksum
NameCode(n) == CASE n = "ping" -> 1 [] n = "echo" -> 2 [] OTHER -> 3

\* JSON.stringify(command.data): the serialization, as a sequence of codes.
JSONstringify(data) == <<NameCode(data.name), data.payload>>

\* calculateChecksum: a digest of the content, folded left to right.
RECURSIVE calculateChecksum(_)
calculateChecksum(content) ==
    IF content = <<>> THEN 7
    ELSE (calculateChecksum(SubSeq(content, 1, Len(content) - 1)) * 31
            + content[Len(content)]) % 65536

\* -------------------------------------------------------------- ledger
\* A row of the commands table (scope GLOBAL) or of guild_commands (scope =
\* guildId).  lastUpdated is the time of the write, at the grain of a run.
Row(s, n, c, t) == [scope |-> s, name |-> n, checksum |-> c, lastUpdated |-> t]
NoRow == Row("none", "none", 0, 0)

ScopeRows(led, s) == { r \in led : r.scope = s }

\* A lookup whose where clause matches no row.
findNone(led, s, n) == NoRow

\* A lookup by name alone, whatever the scope of the row.
findAnyScope(led, s, n) ==
    IF \E r \in led : r.name = n
    THEN CHOOSE r \in led : r.name = n
    ELSE NoRow

\* Model.findOne({ where: { name, [guildId] } }): a matching row or null.
findOne(led, s, n) ==
    IF \E r \in led : r.scope = s /\ r.name = n
    THEN CHOOSE r \in led : r.scope = s /\ r.name = n
    ELSE NoRow

\* An update that removes the row it was to rewrite.
rowUpdateDestroy(led, old, new) == led \ {old}

\* instance.update(attrs): rewrites the row the instance was read from.
rowUpdate(led, old, new) == IF old \in led THEN (led \ {old}) \cup {new} ELSE led

\* A create that writes every row to the commands table.
rowCreateGlobal(led, new) == led \cup {[new EXCEPT !.scope = GLOBAL]}

\* Model.create(attrs)
rowCreate(led, new) == led \cup {new}

VARIABLES
    run,                 \* index of the current process start; also the clock
    files,               \* the command files of the current deployment
    forceRefresh,        \* process.env.FORCE_COMMAND_REFRESH === 'true'
    loaded,              \* _allBotCommandsData && _commandChecksums are set
    allBotCommandsData,  \* _allBotCommandsData
    commandChecksums,    \* _commandChecksums: file base name -> checksum
    ledger,              \* rows of the two tables
    remote,              \* scope -> command set the registry holds
    lc,                  \* loadCommands: its position and locals
    fan,                 \* initializeGuildCommandSyncer: position and tallies
    task,                \* guild -> syncGuildCommands: position and locals
    hist,                \* scope -> what the current pass has done so far
    faults,              \* failures injected so far
    ready,               \* onReady: its position, what it caught, process.exit
    loader,              \* getAllBotCommandsData: position, locals, objects made
    pushed,              \* rows' worth of every accepted rest.put so far
    reg,                 \* guild -> registerCommandsToGuild: position and locals
    clr,                 \* guild -> clearGuildCommands: position and results
    cla,                 \* clearAllCachedGuildCommands: position and tallies
    ia,                  \* the interaction the InteractionCreate listener handles
    rep                  \* the repeater: clock, messages table, ticks, sends

vars == <<run, files, forceRefresh, loaded, allBotCommandsData, commandChecksums,
          ledger, remote, lc, fan, task, hist, faults, ready, loader, pushed,
          reg, clr, cla, ia, rep>>

\* The results an awaited call can have, and what a failure costs.
Results(bad) == {"ok"} \cup (IF faults < MaxFaults THEN {bad} ELSE {})
charge(res) == IF res = "ok" THEN faults ELSE faults + 1

\* The error codes the catch of a guild's rest.put tells from the rest:
\* Missing Access and Missing Permissions.
PermCodes == {"50001", "50013"}

\* The results of a guild's rest.put: accepted, rejected with one of these
\* codes, or rejected otherwise.
PutResults == Results("fail") \cup (IF faults < MaxFaults THEN PermCodes ELSE {})


\* ------------------------------------------------- desired-set loader
\* getAllBotCommandsData, lines 60-90: the data of every file, in file order.
currentAllCommands(fs) == [k \in 1..Len(fs) |-> fs[k].data]

\* getAllBotCommandsData, lines 61-82: checksums keyed by the file base name.
currentCommandChecksums(fs) ==
    [f \in {fs[k].file : k \in 1..Len(fs)} |->
        LET k == CHOOSE j \in 1..Len(fs) : fs[j].file = f
        IN  calculateChecksum(JSONstringify(fs[k].data))]

\* Map.get: the checksum under a key, or 0 for undefined.
checksumGet(m, key) == IF key \in DOMAIN m THEN m[key] ELSE 0

\* ------------------------------------------------- per-pass bookkeeping
\* What a pass of a scope has done: the scope's rows when the pass began, the
\* rest.put calls it made, their result and body, and the ledger errors raised.
FreshHist(led, s, pf) ==
    [pre |-> ScopeRows(led, s), puts |-> 0, putRes |-> "none", body |-> <<>>,
     readErr |-> FALSE, writeErr |-> FALSE, prevFail |-> pf, warned |-> "none"]

\* credentials: TOKEN and the clientId argument are both set; listeners:
\* the InteractionCreate listeners loadCommands has put on the client.
LcStart == [pc |-> "start", i |-> 1, shouldPerformAPIPut |-> FALSE,
            dbCommand |-> NoRow, credentials |-> TRUE, listeners |-> 0]
FanStart == [pc |-> "idle", syncedCount |-> 0, skippedCount |-> 0,
             failedCount |-> 0]
TaskIdle == [pc |-> "idle", i |-> 1, shouldPerformAPIPut |-> FALSE,
             commandsToRegisterViaAPI |-> <<>>, dbGuildCommand |-> NoRow,
             outcome |-> "none"]

\* clearGuildCommands not called: the results of its three awaited calls.
ClearIdle == [pc |-> "idle", fetchRes |-> "none", putRes |-> "none",
              destroyRes |-> "none"]

\* clearAllCachedGuildCommands not called; errorDetails holds guild ids,
\* guilds the cached guilds mapped to a promise, counted those whose promise
\* has settled.
ClaIdle == [pc |-> "idle", clearedCount |-> 0, failedCount |-> 0,
            errorDetails |-> {}, guilds |-> {}, counted |-> {}]

\* No interaction received: the interaction's own flags, the handlers the
\* listener has invoked for it and the error responses it has sent.
\* acknowledged is the registry's side of replied and deferred: the
\* interaction has had its initial response.
IaNone == [pc |-> "none", chat |-> FALSE, commandName |-> "none",
           replied |-> FALSE, deferred |-> FALSE, acknowledged |-> FALSE,
           executes |-> 0, responses |-> <<>>]

\* The repeater module not loaded: no cron job, no row in messages.  clock
\* counts cron periods; ticks are the calls of sendScheduledMessages, oldest
\* first; floating are the updates issued without await; sent and failed
\* log the channel.send calls accepted and rejected.
RepOff == [scheduled |-> FALSE, clock |-> 0, messages |-> <<>>,
           ticks |-> <<>>, floating |-> {}, sent |-> {}, failed |-> {}]

\* onReady before the client is ready; getAllBotCommandsData not yet called.
ReadyOff == [pc |-> "off", caught |-> FALSE, exited |-> FALSE]
\* discoveries counts the directory reads; list and map are the identities
\* of the objects in _allBotCommandsData and _commandChecksums (0 for null);
\* returned lists, call by call, the objects the caller has got.
LoaderIdle == [pc |-> "idle", caller |-> "none", i |-> 1,
               currentAllCommands |-> <<>>, currentCommandChecksums |-> <<>>,
               discoveries |-> 0, list |-> 0, map |-> 0, returned |-> <<>>,
               failed |-> FALSE]

\* What an accepted rest.put of body to scope s confirms: for each command
\* carried, its name and the checksum of the payload carried.
Carried(s, body) ==
    { [scope |-> s, name |-> body[k].name,
       checksum |-> calculateChecksum(JSONstringify(body[k]))] :
        k \in 1..Len(body) }

Init ==
    /\ run = 1
    /\ files \in Deployments
    /\ forceRefresh \in BOOLEAN
    /\ loaded = FALSE
    /\ allBotCommandsData = <<>>
    /\ commandChecksums = <<>>
    /\ ledger = {}
    /\ remote = [s \in Scopes |-> <<>>]
    /\ lc = LcStart
    /\ fan = FanStart
    /\ task = [g \in Guilds |-> TaskIdle]
    /\ hist = [s \in Scopes |-> FreshHist({}, s, FALSE)]
    /\ faults = 0
    /\ ready = ReadyOff
    /\ loader = LoaderIdle
    /\ pushed = {}
    /\ reg = [g \in Guilds |-> TaskIdle]
    /\ clr = [g \in Guilds |-> ClearIdle]
    /\ cla = ClaIdle
    /\ ia = IaNone
    /\ rep = RepOff

\* ------------------------------------------------------- loadCommands
\* lines 190-223: client.on(Events.InteractionCreate, ...), the last
\* statement of loadCommands.
clientOn(l) == [l EXCEPT !.pc = "done", !.listeners = @ + 1]

\* lines 137-141: the change detector of the global scope.
needsGlobalUpdate(dbCommand, currentChecksum, force) ==
    \/ dbCommand = NoRow
    \/ dbCommand.checksum # currentChecksum
    \/ force

\* line 165: what the catch of a failed ledger access does to the flag.
globalCatchFlag(flag) == TRUE

\* lines 122, 167-188: where the loop goes after command i; past the last
\* command the registry call is decided by the flag alone.
lcAfter(i, flag) ==
    LET l == [lc EXCEPT !.i = i + 1, !.shouldPerformAPIPut = flag,
                        !.dbCommand = NoRow]
    IN  IF i < Len(allBotCommandsData) THEN [l EXCEPT !.pc = "findOne"]
        ELSE IF flag THEN [l EXCEPT !.pc = "put"]
        ELSE clientOn(l)

\* lines 113-122: take the (cached) desired set and enter the loop.
LC_Begin ==
    /\ lc.pc = "start"
    /\ LET data == IF loaded THEN allBotCommandsData ELSE currentAllCommands(files)
           sums == IF loaded THEN commandChecksums ELSE currentCommandChecksums(files)
       IN  /\ allBotCommandsData' = data
           /\ commandChecksums' = sums
           /\ loaded' = TRUE
           /\ lc' = IF Len(data) = 0
                    THEN clientOn(lc)
                    ELSE [lc EXCEPT !.pc = "findOne"]
    /\ UNCHANGED <<run, files, forceRefresh, ledger, remote, fan, task, hist,
                   faults,
                   ready, loader, pushed,
                   reg, clr,
                   cla, ia, rep>>

\* lines 123-166 up to the ledger write: checksum lookup, Command.findOne,
\* the comparison.
LC_FindOne ==
    /\ lc.pc = "findOne"
    /\ LET data == allBotCommandsData[lc.i]
           currentChecksum == checksumGet(commandChecksums, data.name)
       IN  IF currentChecksum = 0
           THEN /\ lc' = lcAfter(lc.i, TRUE)
                /\ UNCHANGED <<hist, faults>>
           ELSE \E res \in Results("throw") :
                  /\ faults' = charge(res)
                  /\ IF res = "throw"
                     THEN /\ lc' = lcAfter(lc.i, globalCatchFlag(lc.shouldPerformAPIPut))
                          /\ hist' = [hist EXCEPT ![GLOBAL].readErr = TRUE]
                     ELSE LET dbCommand == findOne(ledger, GLOBAL, data.name)
                          IN  /\ lc' = IF needsGlobalUpdate(dbCommand, currentChecksum,
                                                            forceRefresh)
                                       THEN [lc EXCEPT !.pc = "write",
                                                       !.shouldPerformAPIPut = TRUE,
                                                       !.dbCommand = dbCommand]
                                       ELSE lcAfter(lc.i, lc.shouldPerformAPIPut)
                              /\ UNCHANGED hist
    /\ UNCHANGED <<run, files, forceRefresh, loaded, allBotCommandsData,
                   commandChecksums, ledger, remote, fan, task,
                   ready, loader, pushed,
                   reg, clr,
                   cla, ia, rep>>

\* lines 145-158: dbCommand.update or Command.create, before any registry call.
LC_Write ==
    /\ lc.pc = "write"
    /\ LET data == allBotCommandsData[lc.i]
           new == Row(GLOBAL, data.name,
                      checksumGet(commandChecksums, data.name), run)
       IN  \E res \in Results("throw") :
             /\ faults' = charge(res)
             /\ IF res = "throw"
                THEN /\ lc' = lcAfter(lc.i, globalCatchFlag(lc.shouldPerformAPIPut))
                     /\ hist' = [hist EXCEPT ![GLOBAL].writeErr = TRUE]
                     /\ UNCHANGED ledger
                ELSE /\ ledger' = IF lc.dbCommand # NoRow
                                  THEN rowUpdate(ledger, lc.dbCommand, new)
                                  ELSE rowCreate(ledger, new)
                     /\ lc' = lcAfter(lc.i, lc.shouldPerformAPIPut)
                     /\ UNCHANGED hist
    /\ UNCHANGED <<run, files, forceRefresh, loaded, allBotCommandsData,
                   commandChecksums, remote, fan, task,
                   ready, loader, pushed,
                   reg, clr,
                   cla, ia, rep>>

\* lines 169-223: without TOKEN or clientId the function logs and returns
\* (170-173); otherwise rest.put of the whole desired set, a failure being
\* logged (174-185), and then the listener (190-223). src/src/bot.ts exits
\* at start without the two environment variables, so the started bot
\* always has credentials.
LC_Put ==
    /\ lc.pc = "put"
    /\ IF ~lc.credentials
       THEN /\ lc' = [lc EXCEPT !.pc = "done"]
            /\ UNCHANGED <<faults, hist, remote, pushed>>
       ELSE /\ \E res \in Results("fail") :
                 /\ faults' = charge(res)
                 /\ hist' = [hist EXCEPT ![GLOBAL].puts = @ + 1,
                                         ![GLOBAL].putRes = res,
                                         ![GLOBAL].body = allBotCommandsData]
                 /\ remote' = IF res = "ok"
                              THEN [remote EXCEPT ![GLOBAL] = allBotCommandsData]
                              ELSE remote
                 /\ pushed' = IF res = "ok"
                              THEN pushed \cup Carried(GLOBAL, allBotCommandsData)
                              ELSE pushed
            /\ lc' = clientOn(lc)
    /\ UNCHANGED <<run, files, forceRefresh, loaded, allBotCommandsData,
                   commandChecksums, ledger, fan, task,
                   ready, loader,
                   reg, clr,
                   cla, ia, rep>>

\* -------------------------------------------------- syncGuildCommands
\* line 216: the change detector of a guild scope.
shouldUpdateThisCommand(created, dbGuildCommand, currentChecksum) ==
    created \/ dbGuildCommand.checksum # currentChecksum

\* line 235: the command joins the body once its ledger access is through.
pushProcessed(body, commandData) == Append(body, commandData)

\* A catch that only sets the flag and leaves the command out of the body.
pushOnErrorDropped(body, commandData) == body

\* lines 236-240: the catch of a failed ledger access pushes the command too.
pushOnError(body, commandData) == Append(body, commandData)

\* line 244: whether the registry is called.
shouldCallAPI(flag, body) == flag \/ Len(body) > 0

\* lines 54-62: what the fan-out counts a settled task as.
tallyOf(ret) ==
    CASE ret = "true" -> "synced"
      [] ret = "false" -> "skipped"
      [] OTHER -> "failed"

\* A tally whose else branch is missing: a task that returned false is not
\* counted.
countNoSkipped(f, outcome) ==
    CASE outcome = "synced" -> [f EXCEPT !.syncedCount = @ + 1]
      [] outcome = "skipped" -> f
      [] OTHER -> [f EXCEPT !.failedCount = @ + 1]

count(f, outcome) ==
    CASE outcome = "synced" -> [f EXCEPT !.syncedCount = @ + 1]
      [] outcome = "skipped" -> [f EXCEPT !.skippedCount = @ + 1]
      [] OTHER -> [f EXCEPT !.failedCount = @ + 1]

\* lines 198, 241-275: where the task of guild g goes after command i, with
\* the flag and body it has built; without a registry call it returns false.
sgAfter(t, flag, body) ==
    IF t.i < Len(allBotCommandsData)
    THEN [t EXCEPT !.pc = "find", !.i = @ + 1, !.shouldPerformAPIPut = flag,
                   !.commandsToRegisterViaAPI = body, !.dbGuildCommand = NoRow]
    ELSE [t EXCEPT !.pc = IF shouldCallAPI(flag, body) THEN "put" ELSE "done",
                   !.i = @ + 1, !.shouldPerformAPIPut = flag,
                   !.commandsToRegisterViaAPI = body, !.dbGuildCommand = NoRow,
                   !.outcome = IF shouldCallAPI(flag, body) THEN "none"
                               ELSE tallyOf("false")]

\* The fan-out's counters once the task of a guild has settled.
fanAfter(t) == IF t.pc = "done" THEN count(fan, t.outcome) ELSE fan

\* lines 199-221, 229-240: checksum of the command, GuildCommand.findOrCreate,
\* the comparison.
SG_FindOrCreate(g) ==
    /\ task[g].pc = "find"
    /\ LET t == task[g]
           data == allBotCommandsData[t.i]
           currentChecksum == calculateChecksum(JSONstringify(data))
       IN  \E res \in Results("throw") :
             /\ faults' = charge(res)
             /\ IF res = "throw"
                THEN LET t2 == sgAfter(t, TRUE,
                                       pushOnError(t.commandsToRegisterViaAPI, data))
                     IN  /\ task' = [task EXCEPT ![g] = t2]
                         /\ fan' = fanAfter(t2)
                         /\ hist' = [hist EXCEPT ![g].readErr = TRUE]
                         /\ UNCHANGED ledger
                ELSE LET found == findOne(ledger, g, data.name)
                         created == found = NoRow
                         dbGuildCommand == IF created
                                           THEN Row(g, data.name, currentChecksum, run)
                                           ELSE found
                         t2 == IF shouldUpdateThisCommand(created, dbGuildCommand,
                                                          currentChecksum)
                               THEN IF ~created
                                    THEN [t EXCEPT !.pc = "update",
                                                   !.shouldPerformAPIPut = TRUE,
                                                   !.dbGuildCommand = dbGuildCommand]
                                    ELSE sgAfter(t, TRUE,
                                           pushProcessed(t.commandsToRegisterViaAPI, data))
                               ELSE sgAfter(t, t.shouldPerformAPIPut,
                                           pushProcessed(t.commandsToRegisterViaAPI, data))
                     IN  /\ ledger' = IF created THEN rowCreate(ledger, dbGuildCommand)
                                      ELSE ledger
                         /\ task' = [task EXCEPT ![g] = t2]
                         /\ fan' = fanAfter(t2)
                         /\ UNCHANGED hist
    /\ UNCHANGED <<run, files, forceRefresh, loaded, allBotCommandsData,
                   commandChecksums, remote, lc,
                   ready, loader, pushed,
                   reg, clr,
                   cla, ia, rep>>

\* lines 222-228, 235-240: dbGuildCommand.update of a row whose checksum differs.
SG_Update(g) ==
    /\ task[g].pc = "update"
    /\ LET t == task[g]
           data == allBotCommandsData[t.i]
           new == Row(g, data.name, calculateChecksum(JSONstringify(data)), run)
       IN  \E res \in Results("throw") :
             /\ faults' = charge(res)
             /\ IF res = "throw"
                THEN LET t2 == sgAfter(t, TRUE,
                                       pushOnError(t.commandsToRegisterViaAPI, data))
                     IN  /\ task' = [task EXCEPT ![g] = t2]
                         /\ fan' = fanAfter(t2)
                         /\ hist' = [hist EXCEPT ![g].writeErr = TRUE]
                         /\ UNCHANGED ledger
                ELSE LET t2 == sgAfter(t, TRUE,
                                       pushProcessed(t.commandsToRegisterViaAPI, data))
                     IN  /\ ledger' = rowUpdate(ledger, t.dbGuildCommand, new)
                         /\ task' = [task EXCEPT ![g] = t2]
                         /\ fan' = fanAfter(t2)
                         /\ UNCHANGED hist
    /\ UNCHANGED <<run, files, forceRefresh, loaded, allBotCommandsData,
                   commandChecksums, remote, lc,
                   ready, loader, pushed,
                   reg, clr,
                   cla, ia, rep>>

\* Routes.applicationCommands(clientId): the global route, whatever the guild.
applicationCommands(g) == GLOBAL

\* lines 153, 255: Routes.applicationGuildCommands(clientId, guild.id), the
\* registry scope a guild's rest.put addresses.
applicationGuildCommands(g) == g

\* lines 159-163, 263-267: the warning logged for a rejection with one of
\* the two codes.
warningOf(res) == IF res \in PermCodes THEN res ELSE "none"

\* lines 151-164, 253-270: the effect of a guild's rest.put on the route s
\* with the given body: on what the pass of s has done, on the registry, and
\* on the record of accepted pushes.
putHist(s, res, body) ==
    [hist EXCEPT ![s].puts = @ + 1,
                 ![s].putRes = IF res = "ok" THEN "ok" ELSE "fail",
                 ![s].body = body,
                 ![s].warned = warningOf(res)]

putRemote(s, res, body) ==
    IF res = "ok" THEN [remote EXCEPT ![s] = body] ELSE remote

putPushed(s, res, body) ==
    IF res = "ok" THEN pushed \cup Carried(s, body) ELSE pushed

\* A catch that lets a rejection for missing access or permissions leave
\* the function.
putReturnPermThrown(res) ==
    IF res = "ok" THEN "true" ELSE IF res \in PermCodes THEN "throw" ELSE "false"

\* lines 253-270: what syncGuildCommands returns for the result of rest.put.
putReturn(res) == IF res = "ok" THEN "true" ELSE "false"

\* lines 244-270 and 54-58: rest.put of the body; the task returns and the
\* fan-out counts it.
SG_Put(g) ==
    /\ task[g].pc = "put"
    /\ \E res \in PutResults :
         LET t == task[g]
             outcome == tallyOf(putReturn(res))
         IN  /\ faults' = charge(res)
             /\ hist' = putHist(applicationGuildCommands(g), res,
                                 t.commandsToRegisterViaAPI)
             /\ remote' = putRemote(applicationGuildCommands(g), res,
                                     t.commandsToRegisterViaAPI)
             /\ pushed' = putPushed(applicationGuildCommands(g), res,
                                     t.commandsToRegisterViaAPI)
             /\ task' = [task EXCEPT ![g].pc = "done", ![g].outcome = outcome]
             /\ fan' = count(fan, outcome)
    /\ UNCHANGED <<run, files, forceRefresh, loaded, allBotCommandsData,
                   commandChecksums, ledger, lc,
                   ready, loader,
                   reg, clr,
                   cla, ia, rep>>

\* ---------------------------------------- initializeGuildCommandSyncer
\* lines 22-44: the guards; the token and client.user.id are set once the
\* client is ready (src/src/bot.ts exits without them).  The fan-out is an
\* exported operation; it is called with the desired set loadCommands has
\* loaded, at most once per process start.
IGS_Start ==
    /\ lc.pc = "done"
    /\ fan.pc = "idle"
    /\ fan' = [fan EXCEPT !.pc = IF Len(allBotCommandsData) = 0
                                 THEN "done" ELSE "fetch"]
    /\ UNCHANGED <<run, files, forceRefresh, loaded, allBotCommandsData,
                   commandChecksums, ledger, remote, lc, task, hist, faults,
                   ready, loader, pushed,
                   reg, clr,
                   cla, ia, rep>>

\* lines 43-63: client.guilds.fetch, then one task per guild of
\* client.guilds.cache, each run up to its first await.
IGS_FetchOf(cache) ==
    /\ fan.pc = "fetch"
    /\ \E res \in Results("throw") :
         /\ faults' = charge(res)
         /\ IF res = "throw"
            THEN /\ fan' = [fan EXCEPT !.pc = "done"]
                 /\ UNCHANGED task
            ELSE /\ fan' = [fan EXCEPT !.pc = "running"]
                 /\ task' = [g \in Guilds |->
                                IF g \in cache THEN [TaskIdle EXCEPT !.pc = "find"]
                                ELSE TaskIdle]
    /\ UNCHANGED <<run, files, forceRefresh, loaded, allBotCommandsData,
                   commandChecksums, ledger, remote, lc, hist,
                   ready, loader, pushed,
                   reg, clr,
                   cla, ia, rep>>

\* The fan-out at a start of the process: the bot is in every guild.
IGS_Fetch == IGS_FetchOf(Guilds)

\* lines 65-69: Promise.allSettled over the tasks started, then the tally
\* is logged.
IGS_Finish ==
    /\ fan.pc = "running"
    /\ \A g \in Guilds : task[g].pc \in {"idle", "done"}
    /\ fan' = [fan EXCEPT !.pc = "done"]
    /\ UNCHANGED <<run, files, forceRefresh, loaded, allBotCommandsData,
                   commandChecksums, ledger, remote, lc, task, hist, faults,
                   ready, loader, pushed,
                   reg, clr,
                   cla, ia, rep>>

\* ------------------------------------------------------ process start
\* The process is stopped and started again, possibly with another
\* deployment: the module state is gone, the tables and the registry stay.
Restart ==
    /\ run < MaxRuns
    /\ lc.pc = "done"
    /\ fan.pc \in {"idle", "done"}
    /\ \E d \in Deployments, f \in BOOLEAN :
         /\ files' = d
         /\ forceRefresh' = f
         /\ hist' = [s \in Scopes |->
                        FreshHist(ledger, s,
                                  /\ hist[s].putRes = "fail"
                                  /\ ~hist[s].readErr /\ ~hist[s].writeErr
                                  /\ d = files /\ f = forceRefresh)]
    /\ run' = run + 1
    /\ loaded' = FALSE
    /\ allBotCommandsData' = <<>>
    /\ commandChecksums' = <<>>
    /\ lc' = LcStart
    /\ fan' = FanStart
    /\ task' = [g \in Guilds |-> TaskIdle]
    /\ UNCHANGED <<ledger, remote, faults,
                   ready, loader, pushed,
                   reg, clr,
                   cla, ia, rep>>

Next ==
    \/ LC_Begin
    \/ LC_FindOne
    \/ LC_Write
    \/ LC_Put
    \/ IGS_Start
    \/ IGS_Fetch
    \/ \E g \in Guilds : SG_FindOrCreate(g)
    \/ \E g \in Guilds : SG_Update(g)
    \/ \E g \in Guilds : SG_Put(g)
    \/ IGS_Finish
    \/ Restart

Spec == Init /\ [][Next]_vars

\* ----------------------------------------------- files and command names
\* Deployments whose files need not carry the name of the command they
\* export: pingCommand.ts exports a command named ping (path.parse(file).name
\* is the key of the checksum map, data.name the name registered).
FileDeployments ==
    Deployments
    \cup
    { <<CommandFile("pingCommand", "ping", p)>> : p \in 1..MaxPayload }
    \cup
    { <<CommandFile("echo", "echo", 1), CommandFile("pingCommand", "ping", 1)>> }

\* A first start of the process with any of these deployments.
KeyInit ==
    /\ run = 1
    /\ files \in FileDeployments
    /\ forceRefresh \in BOOLEAN
    /\ loaded = FALSE
    /\ allBotCommandsData = <<>>
    /\ commandChecksums = <<>>
    /\ ledger = {}
    /\ remote = [s \in Scopes |-> <<>>]
    /\ lc = LcStart
    /\ fan = FanStart
    /\ task = [g \in Guilds |-> TaskIdle]
    /\ hist = [s \in Scopes |-> FreshHist({}, s, FALSE)]
    /\ faults = 0
    /\ ready = ReadyOff
    /\ loader = LoaderIdle
    /\ pushed = {}
    /\ reg = [g \in Guilds |-> TaskIdle]
    /\ clr = [g \in Guilds |-> ClearIdle]
    /\ cla = ClaIdle
    /\ ia = IaNone
    /\ rep = RepOff

KeySpec == KeyInit /\ [][Next]_vars

\* ------------------------------------------------------------ onReady
\* src/unnamed/part_001 lines 18-38 (src/src/events/ready.ts lines 16-23):
\* what the catch of onReady does with a rejection: it logs and returns.
onReadyRethrow(r) == [r EXCEPT !.pc = "done", !.exited = TRUE]

onReadyCatch(r) == [r EXCEPT !.pc = "done", !.caught = TRUE]

\* src/src/bot.ts lines 37-46: ClientReady fires once; a rejection of
\* initializeSequelize ends the process.
BOT_Ready ==
    /\ ready.pc = "off"
    /\ \E res \in Results("throw") :
         /\ faults' = charge(res)
         /\ ready' = IF res = "ok" THEN [ready EXCEPT !.pc = "syncModels"]
                     ELSE [ready EXCEPT !.pc = "done", !.exited = TRUE]
    /\ UNCHANGED <<run, files, forceRefresh, loaded, allBotCommandsData,
                   commandChecksums, ledger, remote, lc, fan, task, hist,
                   loader, pushed,
                   reg, clr,
                   cla, ia, rep>>

\* part_001 line 19: await syncModels(sequelize).
OR_SyncModels ==
    /\ ready.pc = "syncModels"
    /\ \E res \in Results("throw") :
         /\ faults' = charge(res)
         /\ ready' = IF res = "ok" THEN [ready EXCEPT !.pc = "loadModules"]
                     ELSE onReadyCatch(ready)
    /\ UNCHANGED <<run, files, forceRefresh, loaded, allBotCommandsData,
                   commandChecksums, ledger, remote, lc, fan, task, hist,
                   loader, pushed,
                   reg, clr,
                   cla, ia, rep>>

\* part_001 line 20: await loadModules(client).
OR_LoadModules ==
    /\ ready.pc = "loadModules"
    /\ \E res \in Results("throw") :
         /\ faults' = charge(res)
         /\ ready' = IF res = "ok" THEN [ready EXCEPT !.pc = "loadCommands"]
                     ELSE onReadyCatch(ready)
    /\ UNCHANGED <<run, files, forceRefresh, loaded, allBotCommandsData,
                   commandChecksums, ledger, remote, lc, fan, task, hist,
                   loader, pushed,
                   reg, clr,
                   cla, ia, rep>>

\* ------------------------------------------- getAllBotCommandsData
\* A cache check that never hits.
neverCached(list, map) == FALSE

\* line 49: both module variables are set (an empty array is truthy too).
isCached(list, map) == list # 0 /\ map # 0

\* index.ts lines 116-122: loadCommands has its desired set and enters the
\* loop over it.
lcEnter(data) ==
    IF Len(data) = 0 THEN clientOn(lc)
    ELSE [lc EXCEPT !.pc = "findOne"]

\* The caller of the loader goes on with the list it got: loadCommands
\* (index.ts 116) into its loop, onReady (part_001 lines 23-35, where the
\* fan-out and the join handler are commented out) to its end.
callerLc(caller, data) == IF caller = "loadCommands" THEN lcEnter(data) ELSE lc
callerReady(caller) ==
    IF caller = "onReady" THEN [ready EXCEPT !.pc = "done"] ELSE ready

\* lines 48-53: a call of the loader, by loadCommands or by onReady; with the
\* cache set it returns the cached list at once.
GA_Call ==
    /\ loader.pc = "idle"
    /\ \E caller \in {"loadCommands", "onReady"} :
         /\ caller = "loadCommands" => (ready.pc = "loadCommands" /\ lc.pc = "start")
         /\ caller = "onReady" => ready.pc = "getAll"
         /\ IF isCached(loader.list, loader.map)
            THEN /\ loader' = [loader EXCEPT !.returned =
                                   Append(@, <<loader.list, loader.map>>)]
                 /\ lc' = callerLc(caller, allBotCommandsData)
                 /\ ready' = callerReady(caller)
            ELSE /\ loader' = [loader EXCEPT !.pc = "readdir", !.caller = caller]
                 /\ UNCHANGED <<lc, ready>>
    /\ UNCHANGED <<run, files, forceRefresh, loaded, allBotCommandsData,
                   commandChecksums, ledger, remote, fan, task, hist, faults,
                   pushed,
                   reg, clr,
                   cla, ia, rep>>

\* lines 93-96: the lists built are stored and the list is returned.
gaStore(ld, cur, sums) ==
    [ld EXCEPT !.pc = "idle", !.caller = "none", !.i = 1,
               !.currentAllCommands = <<>>, !.currentCommandChecksums = <<>>,
               !.list = ld.discoveries, !.map = ld.discoveries,
               !.returned = Append(@, <<ld.discoveries, ld.discoveries>>)]

\* lines 55-61: fs.readdir of the commands directory; its rejection leaves
\* the loader, and loadCommands (line 116, outside any try), and reaches the
\* catch of onReady.
GA_Readdir ==
    /\ loader.pc = "readdir"
    /\ \E res \in Results("throw") :
         /\ faults' = charge(res)
         /\ IF res = "throw"
            THEN /\ loader' = [loader EXCEPT !.pc = "idle", !.caller = "none",
                                             !.discoveries = @ + 1,
                                             !.failed = TRUE]
                 /\ ready' = onReadyCatch(ready)
            ELSE /\ loader' = [loader EXCEPT !.pc = "import", !.i = 1,
                                             !.discoveries = @ + 1,
                                             !.currentAllCommands = <<>>,
                                             !.currentCommandChecksums = <<>>]
                 /\ UNCHANGED ready
    /\ UNCHANGED <<run, files, forceRefresh, loaded, allBotCommandsData,
                   commandChecksums, ledger, remote, lc, fan, task, hist,
                   pushed,
                   reg, clr,
                   cla, ia, rep>>

\* lines 63-96: import of one command file; a file that does not load is
\* logged and left out.  After the last file the result is stored and the
\* caller goes on.
GA_Import ==
    /\ loader.pc = "import"
    /\ \E res \in Results("throw") :
         LET f == files[loader.i]
             cur == IF res = "ok" THEN Append(loader.currentAllCommands, f.data)
                    ELSE loader.currentAllCommands
             sums == IF res = "ok"
                     THEN [k \in DOMAIN loader.currentCommandChecksums \cup {f.file}
                             |-> IF k = f.file
                                 THEN calculateChecksum(JSONstringify(f.data))
                                 ELSE loader.currentCommandChecksums[k]]
                     ELSE loader.currentCommandChecksums
         IN  /\ faults' = charge(res)
             /\ IF loader.i < Len(files)
                THEN /\ loader' = [loader EXCEPT !.i = @ + 1,
                                                 !.currentAllCommands = cur,
                                                 !.currentCommandChecksums = sums]
                     /\ UNCHANGED <<loaded, allBotCommandsData, commandChecksums,
                                    lc, ready>>
                ELSE /\ loader' = gaStore(loader, cur, sums)
                     /\ loaded' = TRUE
                     /\ allBotCommandsData' = cur
                     /\ commandChecksums' = sums
                     /\ lc' = callerLc(loader.caller, cur)
                     /\ ready' = callerReady(loader.caller)
    /\ UNCHANGED <<run, files, forceRefresh, ledger, remote, fan, task, hist,
                   pushed,
                   reg, clr,
                   cla, ia, rep>>

\* part_001 lines 21-23: loadCommands has returned.
OR_Loaded ==
    /\ ready.pc = "loadCommands"
    /\ lc.pc = "done"
    /\ ready' = [ready EXCEPT !.pc = "getAll"]
    /\ UNCHANGED <<run, files, forceRefresh, loaded, allBotCommandsData,
                   commandChecksums, ledger, remote, lc, fan, task, hist,
                   faults, loader, pushed,
                   reg, clr,
                   cla, ia, rep>>

\* The process is stopped once onReady has ended and started again, possibly
\* with another deployment.
RestartReady ==
    /\ run < MaxRuns
    /\ ready.pc = "done"
    /\ \E d \in Deployments, f \in BOOLEAN :
         /\ files' = d
         /\ forceRefresh' = f
    /\ hist' = [s \in Scopes |-> FreshHist(ledger, s, FALSE)]
    /\ run' = run + 1
    /\ loaded' = FALSE
    /\ allBotCommandsData' = <<>>
    /\ commandChecksums' = <<>>
    /\ lc' = LcStart
    /\ fan' = FanStart
    /\ task' = [g \in Guilds |-> TaskIdle]
    /\ ready' = ReadyOff
    /\ loader' = LoaderIdle
    /\ UNCHANGED <<ledger, remote, faults, pushed,
                   reg, clr,
                   cla, ia, rep>>

ReadyNext ==
    \/ BOT_Ready
    \/ OR_SyncModels
    \/ OR_LoadModules
    \/ GA_Call
    \/ GA_Readdir
    \/ GA_Import
    \/ LC_FindOne
    \/ LC_Write
    \/ LC_Put
    \/ OR_Loaded
    \/ RestartReady

ReadySpec == Init /\ [][ReadyNext]_vars

\* ---------------------------------------------------- join events
\* The rows a pass over deployment d leaves in scope s, written at time t,
\* and the commands it has pushed; no rows and no commands for d = <<>>.
RowsOf(s, d, t) ==
    { Row(s, d[k].data.name, calculateChecksum(JSONstringify(d[k].data)), t) :
        k \in 1..Len(d) }

\* A process whose startup is over: the desired set is loaded and the global
\* scope reconciled; each guild has been reconciled under some earlier
\* deployment (it was left and is joined again) or never (<<>>).
JoinInit ==
    /\ run = 1
    /\ files \in Deployments
    /\ forceRefresh \in BOOLEAN
    /\ loaded = TRUE
    /\ allBotCommandsData = currentAllCommands(files)
    /\ commandChecksums = currentCommandChecksums(files)
    /\ \E prior \in [Guilds -> Deployments \cup {<<>>}] :
         /\ ledger = RowsOf(GLOBAL, files, 0)
                        \cup UNION {RowsOf(g, prior[g], 0) : g \in Guilds}
         /\ remote = [s \in Scopes |->
                         IF s = GLOBAL THEN currentAllCommands(files)
                         ELSE currentAllCommands(prior[s])]
    /\ pushed = {[scope |-> r.scope, name |-> r.name, checksum |-> r.checksum] :
                    r \in ledger}
    /\ lc = [LcStart EXCEPT !.pc = "done", !.i = Len(files) + 1,
                            !.listeners = 1]
    /\ fan = FanStart
    /\ task = [g \in Guilds |-> TaskIdle]
    /\ hist = [s \in Scopes |-> FreshHist(ledger, s, FALSE)]
    /\ faults = 0
    /\ ready = [ReadyOff EXCEPT !.pc = "done"]
    /\ loader = [LoaderIdle EXCEPT !.discoveries = 1, !.list = 1, !.map = 1,
                                   !.returned = <<<<1, 1>>, <<1, 1>>>>]
    /\ reg = [g \in Guilds |-> TaskIdle]
    /\ clr = [g \in Guilds |-> ClearIdle]
    /\ cla = ClaIdle
    /\ ia = IaNone
    /\ rep = RepOff

\* part_001 lines 58-75: the guildCreate listener; token and client.user.id
\* are set, and with an empty desired set it returns.  Otherwise it starts
\* registerCommandsToGuild for the guild joined, with the list it was given.
GC_Event(g) ==
    /\ reg[g].pc \in {"idle", "done"}
    /\ Len(allBotCommandsData) > 0
    /\ reg' = [reg EXCEPT ![g] = [TaskIdle EXCEPT !.pc = "find"]]
    /\ hist' = [hist EXCEPT ![g] = FreshHist(ledger, g, FALSE)]
    /\ UNCHANGED <<run, files, forceRefresh, loaded, allBotCommandsData,
                   commandChecksums, ledger, remote, lc, fan, task, faults,
                   ready, loader, pushed,
                   clr,
                   cla, ia, rep>>

\* A join pass that calls the registry only when the flag is set.
rgAfterFlagOnly(t, flag, body) ==
    IF t.i < Len(allBotCommandsData)
    THEN [t EXCEPT !.pc = "find", !.i = @ + 1, !.shouldPerformAPIPut = flag,
                   !.commandsToRegisterViaAPI = body, !.dbGuildCommand = NoRow]
    ELSE [t EXCEPT !.pc = IF flag THEN "put" ELSE "done",
                   !.i = @ + 1, !.shouldPerformAPIPut = flag,
                   !.commandsToRegisterViaAPI = body, !.dbGuildCommand = NoRow]

\* guild_commands.ts lines 97, 140-169: where registerCommandsToGuild goes
\* after command i; it returns nothing.
rgAfter(t, flag, body) ==
    IF t.i < Len(allBotCommandsData)
    THEN [t EXCEPT !.pc = "find", !.i = @ + 1, !.shouldPerformAPIPut = flag,
                   !.commandsToRegisterViaAPI = body, !.dbGuildCommand = NoRow]
    ELSE [t EXCEPT !.pc = IF shouldCallAPI(flag, body) THEN "put" ELSE "done",
                   !.i = @ + 1, !.shouldPerformAPIPut = flag,
                   !.commandsToRegisterViaAPI = body, !.dbGuildCommand = NoRow]

\* lines 98-120, 131-139: checksum, GuildCommand.findOrCreate, comparison.
RG_FindOrCreate(g) ==
    /\ reg[g].pc = "find"
    /\ LET t == reg[g]
           data == allBotCommandsData[t.i]
           currentChecksum == calculateChecksum(JSONstringify(data))
       IN  \E res \in Results("throw") :
             /\ faults' = charge(res)
             /\ IF res = "throw"
                THEN /\ reg' = [reg EXCEPT ![g] =
                                    rgAfter(t, TRUE,
                                        pushOnError(t.commandsToRegisterViaAPI, data))]
                     /\ hist' = [hist EXCEPT ![g].readErr = TRUE]
                     /\ UNCHANGED ledger
                ELSE LET found == findOne(ledger, g, data.name)
                         created == found = NoRow
                         dbGuildCommand == IF created
                                           THEN Row(g, data.name, currentChecksum, run)
                                           ELSE found
                         body == pushProcessed(t.commandsToRegisterViaAPI, data)
                     IN  /\ ledger' = IF created THEN rowCreate(ledger, dbGuildCommand)
                                      ELSE ledger
                         /\ reg' = [reg EXCEPT ![g] =
                                IF shouldUpdateThisCommand(created, dbGuildCommand,
                                                           currentChecksum)
                                THEN IF ~created
                                     THEN [t EXCEPT !.pc = "update",
                                                    !.shouldPerformAPIPut = TRUE,
                                                    !.dbGuildCommand = dbGuildCommand]
                                     ELSE rgAfter(t, TRUE, body)
                                ELSE rgAfter(t, t.shouldPerformAPIPut, body)]
                         /\ UNCHANGED hist
    /\ UNCHANGED <<run, files, forceRefresh, loaded, allBotCommandsData,
                   commandChecksums, remote, lc, fan, task, ready, loader, pushed,
                   clr,
                   cla, ia, rep>>

\* lines 121-127, 134-139: dbGuildCommand.update of a row whose checksum
\* differs.
RG_Update(g) ==
    /\ reg[g].pc = "update"
    /\ LET t == reg[g]
           data == allBotCommandsData[t.i]
           new == Row(g, data.name, calculateChecksum(JSONstringify(data)), run)
       IN  \E res \in Results("throw") :
             /\ faults' = charge(res)
             /\ IF res = "throw"
                THEN /\ reg' = [reg EXCEPT ![g] =
                                    rgAfter(t, TRUE,
                                        pushOnError(t.commandsToRegisterViaAPI, data))]
                     /\ hist' = [hist EXCEPT ![g].writeErr = TRUE]
                     /\ UNCHANGED ledger
                ELSE /\ ledger' = rowUpdate(ledger, t.dbGuildCommand, new)
                     /\ reg' = [reg EXCEPT ![g] =
                                    rgAfter(t, TRUE,
                                        pushProcessed(t.commandsToRegisterViaAPI, data))]
                     /\ UNCHANGED hist
    /\ UNCHANGED <<run, files, forceRefresh, loaded, allBotCommandsData,
                   commandChecksums, remote, lc, fan, task, ready, loader, pushed,
                   clr,
                   cla, ia, rep>>

\* lines 142-169: rest.put of the body to the guild's route; a rejection is
\* logged.
RG_Put(g) ==
    /\ reg[g].pc = "put"
    /\ \E res \in PutResults :
         LET t == reg[g]
         IN  /\ faults' = charge(res)
             /\ hist' = putHist(applicationGuildCommands(g), res,
                                 t.commandsToRegisterViaAPI)
             /\ remote' = putRemote(applicationGuildCommands(g), res,
                                     t.commandsToRegisterViaAPI)
             /\ pushed' = putPushed(applicationGuildCommands(g), res,
                                     t.commandsToRegisterViaAPI)
             /\ reg' = [reg EXCEPT ![g].pc = "done"]
    /\ UNCHANGED <<run, files, forceRefresh, loaded, allBotCommandsData,
                   commandChecksums, ledger, lc, fan, task, ready, loader,
                   clr,
                   cla, ia, rep>>

JoinNext ==
    \/ \E g \in Guilds : GC_Event(g)
    \/ \E g \in Guilds : RG_FindOrCreate(g)
    \/ \E g \in Guilds : RG_Update(g)
    \/ \E g \in Guilds : RG_Put(g)

JoinSpec == JoinInit /\ [][JoinNext]_vars

\* ------------------------------------------- fan-out and join events
\* The fan-out over the guilds the client has cached when it is called; a
\* guild joined since is not among them.
IGS_FetchCached == \E cache \in SUBSET Guilds : IGS_FetchOf(cache)

\* The fan-out (an exported operation) runs in a process whose startup is
\* over while guildCreate events arrive: the pass of a guild joined meanwhile
\* runs beside the fan-out's tasks, for another guild or for the same one.
\* One guild is joined while the fan-out is under way.
GC_Joined(g) ==
    /\ \A h \in Guilds : reg[h].pc = "idle"
    /\ GC_Event(g)

MixNext ==
    \/ IGS_Start
    \/ IGS_FetchCached
    \/ \E g \in Guilds : SG_FindOrCreate(g)
    \/ \E g \in Guilds : SG_Update(g)
    \/ \E g \in Guilds : SG_Put(g)
    \/ IGS_Finish
    \/ \E g \in Guilds : GC_Joined(g)
    \/ \E g \in Guilds : RG_FindOrCreate(g)
    \/ \E g \in Guilds : RG_Update(g)
    \/ \E g \in Guilds : RG_Put(g)

\* guild_commands.ts reads no environment flag: the forced refresh is left off.
MixInit == JoinInit /\ ~forceRefresh

MixSpec == MixInit /\ [][MixNext]_vars

\* ------------------------------------------------ clearGuildCommands
\* A destroy without its where clause: every row of guild_commands goes.
destroyEveryGuild(led, g) == { r \in led : r.scope = GLOBAL }

\* guild_commands.ts line 312: GuildCommand.destroy({ where: { guildId } }).
destroyWhere(led, g) == { r \in led : r.scope # g }

\* lines 285-291: clearGuildCommands(client, guildId, token) is called, by
\* clearMultipleGuildCommands for one guild after the other (lines 334-336)
\* or by clearAllCachedGuildCommands for every cached guild at once (363-377).
CG_Call(g) ==
    /\ clr[g].pc = "idle"
    /\ clr' = [clr EXCEPT ![g].pc = "fetch"]
    /\ UNCHANGED <<run, files, forceRefresh, loaded, allBotCommandsData,
                   commandChecksums, ledger, remote, lc, fan, task, hist,
                   faults, ready, loader, pushed, reg,
                   cla, ia, rep>>

\* lines 292-304, 316-323: client.guilds.fetch(guildId); a rejection goes to
\* the catch, which logs.  The client id is set once the client is ready.
CG_Fetch(g) ==
    /\ clr[g].pc = "fetch"
    /\ \E res \in Results("throw") :
         /\ faults' = charge(res)
         /\ clr' = [clr EXCEPT ![g].pc = IF res = "ok" THEN "put" ELSE "done",
                               ![g].fetchRes = res]
    /\ UNCHANGED <<run, files, forceRefresh, loaded, allBotCommandsData,
                   commandChecksums, ledger, remote, lc, fan, task, hist,
                   ready, loader, pushed, reg,
                   cla, ia, rep>>

\* lines 306-311, 316-323: rest.put of an empty body to the guild's route; a
\* rejection goes to the catch, past the destroy.
CG_Put(g) ==
    /\ clr[g].pc = "put"
    /\ \E res \in PutResults :
         /\ faults' = charge(res)
         /\ remote' = putRemote(applicationGuildCommands(g), res, <<>>)
         /\ clr' = [clr EXCEPT ![g].pc = IF res = "ok" THEN "destroy" ELSE "done",
                               ![g].putRes = IF res = "ok" THEN "ok" ELSE "fail"]
    /\ UNCHANGED <<run, files, forceRefresh, loaded, allBotCommandsData,
                   commandChecksums, ledger, lc, fan, task, hist,
                   ready, loader, pushed, reg,
                   cla, ia, rep>>

\* lines 312-323: GuildCommand.destroy of the guild's rows; a rejection goes
\* to the same catch.
CG_Destroy(g) ==
    /\ clr[g].pc = "destroy"
    /\ \E res \in Results("throw") :
         /\ faults' = charge(res)
         /\ ledger' = IF res = "ok" THEN destroyWhere(ledger, g) ELSE ledger
         /\ clr' = [clr EXCEPT ![g].pc = "done", ![g].destroyRes = res]
    /\ UNCHANGED <<run, files, forceRefresh, loaded, allBotCommandsData,
                   commandChecksums, remote, lc, fan, task, hist,
                   ready, loader, pushed, reg,
                   cla, ia, rep>>

\* The clear operations are exported utilities; they are run in a process
\* whose startup is over, on guilds reconciled before or never.
ClearNext ==
    \/ \E g \in Guilds : CG_Call(g)
    \/ \E g \in Guilds : CG_Fetch(g)
    \/ \E g \in Guilds : CG_Put(g)
    \/ \E g \in Guilds : CG_Destroy(g)

ClearSpec == JoinInit /\ [][ClearNext]_vars

\* ------------------------------------------- repeated reconciliation
\* The process is started again and again with the same deployment and the
\* same environment, each time after the global pass and the fan-out of the
\* start before it have ended.  The clock stops at MaxRuns.
RestartSame ==
    /\ lc.pc = "done"
    /\ fan.pc = "done"
    /\ hist' = [s \in Scopes |->
                   FreshHist(ledger, s,
                             /\ hist[s].putRes = "fail"
                             /\ ~hist[s].readErr /\ ~hist[s].writeErr)]
    /\ run' = IF run < MaxRuns THEN run + 1 ELSE run
    /\ loaded' = FALSE
    /\ allBotCommandsData' = <<>>
    /\ commandChecksums' = <<>>
    /\ lc' = LcStart
    /\ fan' = FanStart
    /\ task' = [g \in Guilds |-> TaskIdle]
    /\ UNCHANGED <<files, forceRefresh, ledger, remote, faults,
                   ready, loader, pushed,
                   reg, clr,
                   cla, ia, rep>>

\* Someone removes the commands of a scope by hand at the registry, between
\* two starts of the process; it counts against the failures of a behaviour.
ManualEdit(s) ==
    /\ faults < MaxFaults
    /\ lc.pc = "done"
    /\ fan.pc = "done"
    /\ remote[s] # <<>>
    /\ remote' = [remote EXCEPT ![s] = <<>>]
    /\ faults' = faults + 1
    /\ UNCHANGED <<run, files, forceRefresh, loaded, allBotCommandsData,
                   commandChecksums, ledger, lc, fan, task, hist,
                   ready, loader, pushed,
                   reg, clr,
                   cla, ia, rep>>

LiveNext ==
    \/ LC_Begin
    \/ LC_FindOne
    \/ LC_Write
    \/ LC_Put
    \/ IGS_Start
    \/ IGS_Fetch
    \/ \E g \in Guilds : SG_FindOrCreate(g)
    \/ \E g \in Guilds : SG_Update(g)
    \/ \E g \in Guilds : SG_Put(g)
    \/ IGS_Finish
    \/ Restart
    \/ RestartSame
    \/ \E s \in Scopes : ManualEdit(s)

\* Every awaited call returns, every task that can go on does, and the
\* process keeps being started; failures stop after MaxFaults of them and
\* the deployment changes (Restart) at most MaxRuns - 1 times.
LiveSpec ==
    /\ Init
    /\ [][LiveNext]_vars
    /\ WF_vars(LC_Begin) /\ WF_vars(LC_FindOne) /\ WF_vars(LC_Write)
    /\ WF_vars(LC_Put) /\ WF_vars(IGS_Start) /\ WF_vars(IGS_Fetch)
    /\ \A g \in Guilds : /\ WF_vars(SG_FindOrCreate(g))
                         /\ WF_vars(SG_Update(g))
                         /\ WF_vars(SG_Put(g))
    /\ WF_vars(IGS_Finish)
    /\ WF_vars(RestartSame)

\* ------------------------------------------------------------- claims
\* The pass of scope s in the current run has run to its end.
PassDone(s) == IF s = GLOBAL THEN lc.pc = "done" ELSE task[s].pc = "done"

\* The "scope changed" flag the pass of s has computed.
Flag(s) == IF s = GLOBAL THEN lc.shouldPerformAPIPut
           ELSE task[s].shouldPerformAPIPut

NoLedgerError(s) == ~hist[s].readErr /\ ~hist[s].writeErr

\* rows holds a row of (data.name, s) with the checksum of data.
Matches(rows, s, data) ==
    \E r \in rows : /\ r.scope = s
                    /\ r.name = data.name
                    /\ r.checksum = calculateChecksum(JSONstringify(data))

\* When the pass of s began, the ledger reflected every desired command.
AllMatch(s) ==
    \A k \in 1..Len(allBotCommandsData) :
        Matches(hist[s].pre, s, allBotCommandsData[k])

\* The rows of s after a pass of s that met no error: a desired command whose
\* row is missing or stale gets a row written in this run, the rest stay.
AloneRows(s) ==
    LET names == {allBotCommandsData[k].name : k \in 1..Len(allBotCommandsData)}
        fresh == {k \in 1..Len(allBotCommandsData) :
                     ~Matches(hist[s].pre, s, allBotCommandsData[k])}
    IN  {r \in hist[s].pre :
            r.name \notin {allBotCommandsData[k].name : k \in fresh}}
        \cup
        {Row(s, allBotCommandsData[k].name,
             calculateChecksum(JSONstringify(allBotCommandsData[k])), run) :
            k \in fresh}

\* C1 (write-after-confirm): a pass whose rest.put failed leaves the ledger
\* of its scope as it was when the pass began.
C1_WriteAfterConfirm ==
    \A s \in Scopes :
        (PassDone(s) /\ hist[s].putRes = "fail")
            => ScopeRows(ledger, s) = hist[s].pre

\* C2 (idempotence): with forced refresh off and a ledger that reflects every
\* desired command, a pass of any scope makes no registry call and reports
\* the scope as unchanged (read in the claim's favour: nothing has failed).
C2_Idempotence ==
    \A s \in Scopes :
        (PassDone(s) /\ ~forceRefresh /\ faults = 0 /\ AllMatch(s))
            => /\ hist[s].puts = 0
               /\ s \in Guilds => task[s].outcome = "skipped"

\* C3 (retry after failure): when the previous pass of a scope ended in a
\* failed rest.put and the desired set is the same, the next pass marks the
\* scope changed again and issues the call.
C3_RetryAfterFailure ==
    \A s \in Scopes :
        (PassDone(s) /\ hist[s].prevFail /\ NoLedgerError(s))
            => (Flag(s) /\ hist[s].puts = 1)

\* C4 (whole-scope replace): every rest.put a pass issues carries the whole
\* desired set, in desired order, whatever was detected as changed and
\* whether or not a ledger access threw.
C4_WholeScopeReplace ==
    \A s \in Scopes : hist[s].puts > 0 => hist[s].body = allBotCommandsData

\* C4, its case: a guild pass over two commands, one of them up to date and
\* one whose ledger lookup threw, has issued its call.
C4_Witness ==
    \E g \in Guilds :
        /\ hist[g].puts > 0
        /\ hist[g].readErr
        /\ Len(allBotCommandsData) = 2
        /\ \E k \in 1..2 : Matches(hist[g].pre, g, allBotCommandsData[k])

\* C5 (change detection): with forced refresh off and no ledger error, a pass
\* decides a registry call exactly when some desired command has no row, or a
\* row with another checksum, in its scope (nothing has failed so far).
C5_ChangeDetection ==
    \A s \in Scopes :
        (PassDone(s) /\ ~forceRefresh /\ faults = 0)
            => ((hist[s].puts > 0) <=> ~AllMatch(s))

\* C6 (forced refresh in every scope): with the forced-refresh flag set, the
\* pass of every scope, global or guild, marks the scope changed and pushes
\* (nothing has failed so far).
C6_ForcedRefreshEveryScope ==
    \A s \in Scopes :
        (PassDone(s) /\ forceRefresh /\ faults = 0)
            => (Flag(s) /\ hist[s].puts = 1)

\* C7 (scope isolation): when the fan-out has settled with the rest.put of
\* guild a failed and that of guild b accepted, b is counted as synced, a as
\* failed, and the rows of b are those of a pass of b alone.
C7_ScopeIsolation ==
    \A a \in Guilds : \A b \in Guilds \ {a} :
        (/\ fan.pc = "done"
         /\ hist[a].putRes = "fail"
         /\ hist[b].putRes = "ok")
            => /\ task[b].outcome = "synced"
               /\ task[a].outcome = "failed"
               /\ ScopeRows(ledger, b) = AloneRows(b)

\* C8 (tally): when the fan-out has settled, Failed counts the guilds whose
\* registry call or ledger access raised an error, Synced those whose call
\* was made and accepted, Skipped those for which no call was made.
C8_TallyCorrect ==
    fan.pc = "done" =>
        LET ran == {g \in Guilds : PassDone(g)}
            raised == {g \in ran : hist[g].putRes = "fail" \/ ~NoLedgerError(g)}
        IN  /\ fan.failedCount = Cardinality(raised)
            /\ fan.syncedCount =
                 Cardinality({g \in ran \ raised : hist[g].putRes = "ok"})
            /\ fan.skippedCount = Cardinality({g \in ran : hist[g].puts = 0})

\* C9 (lookup failure propagated): a pass in which a ledger lookup threw
\* issues no registry call.
C9_LookupFailurePropagated ==
    \A s \in Scopes : (PassDone(s) /\ hist[s].readErr) => hist[s].puts = 0

\* C10 (ledger error leaves the scope untouched): a pass in which a ledger
\* read or write threw leaves the rows of its scope as they were when the
\* pass began.
C10_LedgerErrorLeavesScope ==
    \A s \in Scopes :
        (PassDone(s) /\ ~NoLedgerError(s))
            => ScopeRows(ledger, s) = hist[s].pre

\* The pass of s has run to its end and nothing has failed in the behaviour.
CleanPass(s) == PassDone(s) /\ faults = 0

\* Every desired command has a row in rows holding its current checksum.
Reflects(rows, s) ==
    \A k \in 1..Len(allBotCommandsData) : Matches(rows, s, allBotCommandsData[k])

\* C11 (ledger rows reflect what was pushed): after a pass whose rest.put was
\* accepted, the ledger holds, for every desired command, a row of its scope
\* with the checksum of the command's current payload.
C11_RowsReflectPush ==
    \A s \in Scopes :
        (PassDone(s) /\ hist[s].putRes = "ok") => Reflects(ledger, s)

\* C13 (one registry call per scope per pass): a pass issues exactly one
\* rest.put when its scope is changed or forced and none otherwise (nothing
\* has failed, so no call is there to be re-issued).
C13_OneCallPerPass ==
    \A s \in Scopes :
        CleanPass(s)
            => hist[s].puts = (IF forceRefresh \/ ~AllMatch(s) THEN 1 ELSE 0)

\* Some row of s, as the pass found it, names a command that is no longer in
\* the desired set.
Removed(s) ==
    \E r \in hist[s].pre :
        r.name \notin {allBotCommandsData[k].name : k \in 1..Len(allBotCommandsData)}

\* C14 (no orphaned remote entries): when a command has been removed from the
\* desired set and the remaining ones are unchanged, a pass that met no
\* failure leaves the registry of its scope holding the desired set.
C14_NoOrphans ==
    \A s \in Scopes :
        (CleanPass(s) /\ AllMatch(s) /\ Removed(s))
            => remote[s] = allBotCommandsData

\* The pass of guild g raised an error: a ledger access or its rest.put.
Raised(g) == hist[g].putRes = "fail" \/ ~NoLedgerError(g)

\* C18 (scope-level errors never escape): an error raised by the ledger or the
\* registry in the pass of a guild is turned into a failed outcome of that
\* guild, and the fan-out settles with it.
C18_ErrorsBecomeFailed ==
    \A g \in Guilds :
        (fan.pc = "done" /\ PassDone(g) /\ Raised(g))
            => task[g].outcome = "failed"

\* C12 (a row's checksum was confirmed pushed): each ledger row (name, scope,
\* c) has an accepted rest.put of its scope that carried the command with
\* checksum c (read in the claim's favour: rows of a scope whose pass is
\* still under way are not looked at).
C12_RowsConfirmed ==
    \A r \in ledger :
        PassDone(r.scope)
            => [scope |-> r.scope, name |-> r.name, checksum |-> r.checksum]
                   \in pushed

\* C15 (eventual consistency): under repeated starts with the same desired
\* set, once the failures have stopped, the registry of every scope comes to
\* hold the desired set and keeps holding it.
C15_EventualConsistency ==
    <>[](\A s \in Scopes : remote[s] = currentAllCommands(files))

\* onReady has run to its end without catching anything.
StartupCompleted == ready.pc = "done" /\ ~ready.caught /\ ~ready.exited

\* C16 (startup sequence): a startup that completes has loaded the desired
\* set once, reconciled the global scope and then, through the fan-out, every
\* guild the bot is in (nothing has failed, so the desired set is not empty).
C16_StartupSequence ==
    (StartupCompleted /\ faults = 0)
        => /\ loader.discoveries = 1
           /\ PassDone(GLOBAL)
           /\ \A g \in Guilds : PassDone(g)

\* The rows the tables held when the process started.
RowsAtStart == UNION {hist[s].pre : s \in Scopes}

\* C19 (discovery failure aborts the cycle cleanly): once the read of the
\* commands directory has failed, the loader has stored nothing, no ledger
\* row has been written and no rest.put issued in any scope, and the process
\* has not exited: onReady has caught the error and ended.
C19_DiscoveryFailureAborts ==
    loader.failed
        => /\ ~loaded /\ loader.returned = <<>>
           /\ ledger = RowsAtStart
           /\ \A s \in Scopes : hist[s].puts = 0
           /\ lc.pc = "start"
           /\ ready.pc = "done" /\ ready.caught /\ ~ready.exited

\* C19, its case: the directory read failed at a start that found rows from
\* the start before it.
C19_Witness ==
    /\ loader.failed
    /\ ready.pc = "done"
    /\ RowsAtStart # {}

\* C20 (loader caching): within one process every call of the loader returns
\* the same list object, with the same checksum map behind it, and the
\* directory is read for the first call only.
C20_LoaderCached ==
    /\ \A i, j \in DOMAIN loader.returned :
           loader.returned[i] = loader.returned[j]
    /\ loader.returned # <<>> => loader.discoveries = 1
    /\ loader.discoveries <= 1

\* C20, its case: the loader has been called twice in one process, by
\* loadCommands and then by onReady, over a non-empty desired set.
C20_Witness ==
    /\ Len(loader.returned) = 2
    /\ ready.pc = "done"
    /\ allBotCommandsData # <<>>

\* A step of the join pass of guild g leaves the desired set and the loader
\* as they are, and every scope but g without a new row, a changed row or a
\* registry call.
JoinStepFrame(g) ==
    /\ allBotCommandsData' = allBotCommandsData
    /\ commandChecksums' = commandChecksums
    /\ loader' = loader
    /\ \A s \in Scopes \ {g} :
          /\ ScopeRows(ledger', s) = ScopeRows(ledger, s)
          /\ remote'[s] = remote[s]
          /\ hist'[s].puts = hist[s].puts

C21_DisjointWrites ==
    [][\A s \in Scopes :
          ScopeRows(ledger', s) # ScopeRows(ledger, s)
              => IF s = GLOBAL
                 THEN lc.pc = "write" /\ lc' # lc
                 ELSE task[s].pc \in {"find", "update"} /\ task'[s] # task[s]]_vars

\* C21, its case: the pass of a guild has written rows of its own and awaits
\* its rest.put, while the global scope and the other guild hold rows.
C21_Witness ==
    \E g \in Guilds :
        /\ task[g].pc = "put"
        /\ ScopeRows(ledger, g) # hist[g].pre
        /\ \A s \in Scopes \ {g} : ScopeRows(ledger, s) # {}

\* Guild g is reconciled by one pass only, which has run to its end: a task
\* of the fan-out and no join pass, or a join pass and no task.
OnlySync(g) == task[g].pc = "done" /\ reg[g].pc = "idle"
OnlyJoin(g) == reg[g].pc = "done" /\ task[g].pc = "idle"

\* C22 (concurrent passes on different scopes): whatever a pass of another
\* guild does meanwhile, and in whatever order the steps interleave, a pass
\* that is the only one on its guild and meets no ledger error ends with the
\* rows it would leave when run alone, after exactly one rest.put of the
\* whole desired set to its own route.
C22_ConcurrentScopes ==
    \A g \in Guilds :
        ((OnlySync(g) \/ OnlyJoin(g)) /\ NoLedgerError(g))
            => /\ ScopeRows(ledger, g) = AloneRows(g)
               /\ hist[g].puts = 1
               /\ hist[g].body = allBotCommandsData
               /\ hist[g].putRes = "ok" => remote[g] = allBotCommandsData

\* C22, its case: the fan-out's task of one guild has ended, rows written and
\* rest.put accepted, while the join pass of another guild has written its
\* rows and has its rest.put still to make.
C22_Witness ==
    \E a \in Guilds : \E b \in Guilds \ {a} :
        /\ OnlySync(a)
        /\ hist[a].putRes = "ok"
        /\ ScopeRows(ledger, a) # hist[a].pre
        /\ reg[b].pc = "put" /\ task[b].pc = "idle"
        /\ ScopeRows(ledger, b) # hist[b].pre

Keys(led) == { <<r.scope, r.name>> : r \in led }

Enumerated == { g \in Guilds : task[g].pc # "idle" }
Settled == { g \in Guilds : task[g].pc = "done" }
TallySum == fan.syncedCount + fan.skippedCount + fan.failedCount

\* C25 (fan-out aggregation): in whatever order the guild tasks settle, the
\* counters add up to the number of tasks settled so far, and when the
\* fan-out reports its tally every task it started has settled, so that
\* synced + skipped + failed is the number of guilds enumerated.
C25_TallyComplete ==
    /\ TallySum = Cardinality(Settled)
    /\ fan.pc = "done" => (Settled = Enumerated
                            /\ TallySum = Cardinality(Enumerated))

\* C25, its case: the fan-out has reported after the tasks of two guilds
\* settled, one with its rest.put accepted and one with it refused.
C25_Witness ==
    /\ fan.pc = "done"
    /\ Cardinality(Enumerated) = 2
    /\ fan.syncedCount = 1
    /\ fan.skippedCount = 1

\* What a rejected rest.put of guild g leaves behind, whatever its error
\* code: ledger, registry and accepted pushes as they were; the fan-out's
\* task returns false and is counted as skipped, the join pass just ends.
\* Neither goes on to a second call.
RejectedPutStep(g) ==
    /\ ledger' = ledger
    /\ remote' = remote
    /\ pushed' = pushed
    /\ \/ /\ task'[g] = [task[g] EXCEPT !.pc = "done", !.outcome = "skipped"]
          /\ fan' = count(fan, "skipped")
          /\ reg' = reg
       \/ /\ reg'[g] = [reg[g] EXCEPT !.pc = "done"]
          /\ task' = task
          /\ fan' = fan

\* C26 (permission errors): a rest.put rejected with code 50001 or 50013 has
\* the outcome, the ledger and the absence of a retry of a rest.put rejected
\* with any other error; the warning logged is all that tells them apart.
C26_PermissionAsGeneric ==
    [][\A g \in Guilds :
          (hist'[g].puts = hist[g].puts + 1 /\ hist'[g].putRes = "fail")
              => RejectedPutStep(g)]_vars

\* C26, its case: the fan-out's task of a guild has written rows, had its
\* rest.put rejected for missing access or permissions, and has ended.
C26_Witness ==
    \E g \in Guilds :
        /\ hist[g].warned \in PermCodes
        /\ task[g].pc = "done"
        /\ ScopeRows(ledger, g) # hist[g].pre

\* The rows and the registry content of guild g before any clear operation
\* (no reconciliation runs beside the clear operations).
RowsBeforeClear(g) == hist[g].pre
HadCommands(g) == hist[g].pre # {}

\* A step of clearGuildCommands(g) leaves the rows and the registry of every
\* other scope as they were.
ClearStepFrame(g) ==
    \A s \in Scopes \ {g} :
        /\ ScopeRows(ledger', s) = ScopeRows(ledger, s)
        /\ remote'[s] = remote[s]

\* C27 (clearGuildCommands), as claimed: once the call has ended without an
\* error of the registry, the registry of g is empty and the ledger has no
\* row of g; after a rejected rest.put the rows of g are all kept; no step
\* touches another scope.
C27_ClearGuild ==
    /\ [](\A g \in Guilds :
            clr[g].pc = "done"
                => /\ (clr[g].fetchRes = "ok" /\ clr[g].putRes = "ok")
                          => (remote[g] = <<>> /\ ScopeRows(ledger, g) = {})
                   /\ clr[g].putRes = "fail"
                          => ScopeRows(ledger, g) = RowsBeforeClear(g))
    /\ [][\A g \in Guilds : clr'[g] # clr[g] => ClearStepFrame(g)]_vars

\* C27, amended: the rows of g are gone when neither the registry nor the
\* ledger raised an error; when guilds.fetch or rest.put is rejected, rows
\* and registry of g stay as they were; when GuildCommand.destroy is
\* rejected, the registry of g is empty and the rows of g are all kept.  No
\* step touches another scope.
C27_ClearGuildAmended ==
    /\ [](\A g \in Guilds :
            clr[g].pc = "done"
                => /\ clr[g].destroyRes = "ok"
                          => (remote[g] = <<>> /\ ScopeRows(ledger, g) = {})
                   /\ (clr[g].fetchRes = "throw" \/ clr[g].putRes = "fail")
                          => ScopeRows(ledger, g) = RowsBeforeClear(g)
                   /\ clr[g].destroyRes = "throw"
                          => (remote[g] = <<>>
                              /\ ScopeRows(ledger, g) = RowsBeforeClear(g)))
    /\ [][\A g \in Guilds : clr'[g] # clr[g] => ClearStepFrame(g)]_vars

\* C27, its case: the commands of a guild that had rows have been cleared,
\* registry and rows, while the other guild still has its rows.
C27_Witness ==
    \E g \in Guilds :
        /\ clr[g].pc = "done"
        /\ clr[g].destroyRes = "ok"
        /\ HadCommands(g)
        /\ \A s \in Scopes \ {g} : ScopeRows(ledger, s) # {}

\* The loader has left out a command file that did not load.
PartialSet == loaded /\ Len(allBotCommandsData) < Len(files)

\* C28 (no partial desired set is pushed): when a command file failed to
\* load during discovery, no rest.put is issued with the set of the files
\* that did load.
C28_NoPartialPush == PartialSet => hist[GLOBAL].puts = 0

\* C29 (checksum key consistency): for every command of the cached desired
\* set the checksum map has an entry under the command's declared name, the
\* key loadCommands looks up, so that no command takes the "checksum not
\* found" branch.
C29_ChecksumKeys ==
    loaded => \A k \in 1..Len(allBotCommandsData) :
                  checksumGet(commandChecksums, allBotCommandsData[k].name) # 0

\* Rows without their scope: what two guilds' rows are compared by.
Mirror(rows) ==
    { [name |-> r.name, checksum |-> r.checksum, lastUpdated |-> r.lastUpdated] :
        r \in rows }

CallInit ==
    /\ run = 1
    /\ files \in Deployments
    /\ forceRefresh \in BOOLEAN
    /\ loaded = FALSE
    /\ allBotCommandsData = <<>>
    /\ commandChecksums = <<>>
    /\ ledger = {}
    /\ remote = [s \in Scopes |-> <<>>]
    /\ \E c \in BOOLEAN : lc = [LcStart EXCEPT !.credentials = c]
    /\ fan = FanStart
    /\ task = [g \in Guilds |-> TaskIdle]
    /\ hist = [s \in Scopes |-> FreshHist({}, s, FALSE)]
    /\ faults = 0
    /\ ready = ReadyOff
    /\ loader = LoaderIdle
    /\ pushed = {}
    /\ reg = [g \in Guilds |-> TaskIdle]
    /\ clr = [g \in Guilds |-> ClearIdle]
    /\ cla = ClaIdle
    /\ ia = IaNone
    /\ rep = RepOff

CallNext ==
    \/ LC_Begin
    \/ LC_FindOne
    \/ LC_Write
    \/ LC_Put

CallSpec == CallInit /\ [][CallNext]_vars

\* C31: every call of loadCommands that has returned has installed the
\* InteractionCreate listener exactly once, whatever the global registration
\* did, the return without TOKEN or clientId after the ledger writes
\* included.
C31_ListenerInstalled ==
    (lc.pc = "done" /\ faults = 0) => lc.listeners = 1

\* ------------------------------------------------ interaction dispatch
\* The command names an interaction can carry: those of the deployments and
\* one that no file of any deployment is loaded under.
InteractionNames == {"ping", "echo", "old"}

\* index.ts line 193: loadedCommands.get(name); the map is filled under the
\* file base names (lines 66, 78).
loadedCommandsGet(fs, name) == {k \in 1..Len(fs) : fs[k].file = name}

\* lines 197-203: the response to an unknown command, none if the interaction
\* is already replied or deferred.
unknownResponse(i) ==
    IF ~i.replied /\ ~i.deferred THEN <<"reply">> ELSE <<>>

catchResponseReply(i) == "reply"

\* lines 211-220: the response to a handler error.
catchResponse(i) ==
    IF i.deferred \/ i.replied THEN "followUp" ELSE "reply"

\* What a response sent by the listener does to the interaction: an accepted
\* reply is its initial response, a followUp changes no flag.
respond(i, via, res) ==
    [i EXCEPT !.responses = Append(@, [via |-> via,
                                        acknowledged |-> i.acknowledged]),
              !.replied = IF via = "reply" /\ res = "ok" THEN TRUE ELSE @,
              !.acknowledged = IF via = "reply" /\ res = "ok" THEN TRUE ELSE @]

\* The client emits InteractionCreate to the listener of loadCommands.
IC_Receive ==
    /\ lc.listeners > 0
    /\ ia.pc \in {"none", "done"}
    /\ \E chat \in BOOLEAN, n \in InteractionNames :
         ia' = [IaNone EXCEPT !.pc = "listener", !.chat = chat,
                              !.commandName = n]
    /\ UNCHANGED <<run, files, forceRefresh, loaded, allBotCommandsData,
                   commandChecksums, ledger, remote, lc, fan, task, hist,
                   faults, ready, loader, pushed, reg, clr, cla, rep>>

\* lines 190-207: the type test, the lookup, the unknown-command response or
\* the call of command.execute.
IC_Listener ==
    /\ ia.pc = "listener"
    /\ IF ~ia.chat
       THEN ia' = [ia EXCEPT !.pc = "done"]
       ELSE IF loadedCommandsGet(files, ia.commandName) = {}
       THEN \E res \in {"ok", "throw"} :
              ia' = IF unknownResponse(ia) = <<>>
                    THEN [ia EXCEPT !.pc = "done"]
                    ELSE [respond(ia, unknownResponse(ia)[1], res)
                            EXCEPT !.pc = "done"]
       ELSE ia' = [ia EXCEPT !.pc = "execute", !.executes = @ + 1]
    /\ UNCHANGED <<run, files, forceRefresh, loaded, allBotCommandsData,
                   commandChecksums, ledger, remote, lc, fan, task, hist,
                   faults, ready, loader, pushed, reg, clr, cla, rep>>

\* BotCommand.execute (lines 24-33) gives the interaction its initial
\* response, by deferReply as the newmessage command does (part_001 line
\* 166) or by reply; a rejected call throws out of the handler.
EX_Acknowledge ==
    /\ ia.pc = "execute"
    /\ ~ia.acknowledged
    /\ \E how \in {"deferReply", "reply"}, res \in {"ok", "throw"} :
         ia' = IF res = "throw" THEN [ia EXCEPT !.pc = "catch"]
               ELSE IF how = "reply"
               THEN [ia EXCEPT !.replied = TRUE, !.acknowledged = TRUE]
               ELSE [ia EXCEPT !.deferred = TRUE, !.acknowledged = TRUE]
    /\ UNCHANGED <<run, files, forceRefresh, loaded, allBotCommandsData,
                   commandChecksums, ledger, remote, lc, fan, task, hist,
                   faults, ready, loader, pushed, reg, clr, cla, rep>>

\* The handler returns, or throws (an editReply rejected in its own catch,
\* part_001 lines 262-268), before or after the initial response.
EX_End ==
    /\ ia.pc = "execute"
    /\ \E res \in {"return", "throw"} :
         ia' = [ia EXCEPT !.pc = IF res = "throw" THEN "catch" ELSE "done"]
    /\ UNCHANGED <<run, files, forceRefresh, loaded, allBotCommandsData,
                   commandChecksums, ledger, remote, lc, fan, task, hist,
                   faults, ready, loader, pushed, reg, clr, cla, rep>>

\* lines 209-221: the catch around command.execute.
IC_Catch ==
    /\ ia.pc = "catch"
    /\ \E res \in {"ok", "throw"} :
         ia' = [respond(ia, catchResponse(ia), res) EXCEPT !.pc = "done"]
    /\ UNCHANGED <<run, files, forceRefresh, loaded, allBotCommandsData,
                   commandChecksums, ledger, remote, lc, fan, task, hist,
                   faults, ready, loader, pushed, reg, clr, cla, rep>>

DispatchNext ==
    \/ IC_Receive
    \/ IC_Listener
    \/ EX_Acknowledge
    \/ EX_End
    \/ IC_Catch

DispatchSpec == JoinInit /\ [][DispatchNext]_vars

\* C32: for an interaction the listener invokes at most one handler, one
\* loaded under the interaction's command name; it sends at most one error
\* response (unknown command or handler error), by reply exactly when the
\* interaction had no initial response yet and by followUp otherwise, so it
\* never replies to an acknowledged interaction.
C32_Dispatch ==
    /\ ia.executes <= 1
    /\ ia.executes = 1 => loadedCommandsGet(files, ia.commandName) # {}
    /\ Len(ia.responses) <= 1
    /\ \A k \in 1..Len(ia.responses) :
         ia.responses[k].via = "reply" <=> ~ia.responses[k].acknowledged

\* A handler that had deferred threw, and the listener sent a followUp.
C32_Witness ==
    /\ ia.pc = "done"
    /\ ia.executes = 1
    /\ ia.deferred
    /\ ia.responses = <<[via |-> "followUp", acknowledged |-> TRUE]>>

\* --------------------------------------- clearAllCachedGuildCommands
\* guild_commands.ts lines 316-323: the catch of clearGuildCommands logs and
\* returns, so the promise its caller awaits never rejects.
cgRejects(c) == FALSE

\* lines 372-384: the body mapped over the cached guilds, once its await of
\* clearGuildCommands is over.
settle(a, g, c) ==
    IF cgRejects(c)
    THEN [a EXCEPT !.failedCount = @ + 1, !.errorDetails = @ \cup {g},
                   !.counted = @ \cup {g}]
    ELSE [a EXCEPT !.clearedCount = @ + 1, !.counted = @ \cup {g}]

\* lines 354-362: the call; the two counters start at 0.
CA_Call ==
    /\ cla.pc = "idle"
    /\ \A g \in Guilds : clr[g].pc = "idle"
    /\ cla' = [ClaIdle EXCEPT !.pc = "fetch"]
    /\ UNCHANGED <<run, files, forceRefresh, loaded, allBotCommandsData,
                   commandChecksums, ledger, remote, lc, fan, task, hist,
                   faults, ready, loader, pushed, reg, clr, ia, rep>>

\* lines 364-372: client.guilds.fetch(); a rejection is logged and the
\* function returns; otherwise every cached guild gets its promise, which
\* runs clearGuildCommands up to its first await.
CA_Fetch ==
    /\ cla.pc = "fetch"
    /\ \E res \in Results("throw") :
         /\ faults' = charge(res)
         /\ IF res = "throw"
            THEN /\ cla' = [cla EXCEPT !.pc = "returned"]
                 /\ UNCHANGED clr
            ELSE \E cache \in SUBSET Guilds :
                   /\ cla' = [cla EXCEPT !.pc = "allSettled", !.guilds = cache]
                   /\ clr' = [g \in Guilds |->
                                IF g \in cache
                                THEN [ClearIdle EXCEPT !.pc = "fetch"]
                                ELSE clr[g]]
    /\ UNCHANGED <<run, files, forceRefresh, loaded, allBotCommandsData,
                   commandChecksums, ledger, remote, lc, fan, task, hist,
                   ready, loader, pushed, reg, ia, rep>>

\* lines 372-384: clearGuildCommands of guild g is over and its promise
\* settles.
CA_Settle(g) ==
    /\ cla.pc = "allSettled"
    /\ g \in cla.guilds \ cla.counted
    /\ clr[g].pc = "done"
    /\ cla' = settle(cla, g, clr[g])
    /\ UNCHANGED <<run, files, forceRefresh, loaded, allBotCommandsData,
                   commandChecksums, ledger, remote, lc, fan, task, hist,
                   faults, ready, loader, pushed, reg, clr, ia, rep>>

\* lines 386-397: Promise.allSettled is over; the tally is logged.
CA_Finish ==
    /\ cla.pc = "allSettled"
    /\ cla.counted = cla.guilds
    /\ cla' = [cla EXCEPT !.pc = "done"]
    /\ UNCHANGED <<run, files, forceRefresh, loaded, allBotCommandsData,
                   commandChecksums, ledger, remote, lc, fan, task, hist,
                   faults, ready, loader, pushed, reg, clr, ia, rep>>

ClearAllNext ==
    \/ CA_Call
    \/ CA_Fetch
    \/ \E g \in Guilds : CG_Fetch(g)
    \/ \E g \in Guilds : CG_Put(g)
    \/ \E g \in Guilds : CG_Destroy(g)
    \/ \E g \in Guilds : CA_Settle(g)
    \/ CA_Finish

ClearAllSpec == JoinInit /\ [][ClearAllNext]_vars

\* The clear of guild g went through: guild fetched, remote set emptied,
\* rows destroyed.
ClearedInFact(g) ==
    /\ clr[g].fetchRes = "ok"
    /\ clr[g].putRes = "ok"
    /\ clr[g].destroyRes = "ok"

\* C33: when clearAllCachedGuildCommands has logged its tally, clearedCount
\* is the number of guilds whose remote commands and rows were cleared in
\* fact, failedCount the number of the others, together the number of
\* guilds, and every guild whose clear failed is in errorDetails.
C33_ClearAllTally ==
    cla.pc = "done" =>
      /\ cla.clearedCount = Cardinality({g \in cla.guilds : ClearedInFact(g)})
      /\ cla.failedCount = Cardinality({g \in cla.guilds : ~ClearedInFact(g)})
      /\ cla.clearedCount + cla.failedCount = Cardinality(cla.guilds)
      /\ {g \in cla.guilds : ~ClearedInFact(g)} \subseteq cla.errorDetails

\* ------------------------------------------------------------ repeater
\* The cron job fires at most MaxClock times; one hour is Hour cron periods
\* (60 in the program); the messages table has MaxMessages rows.
MaxClock == 3
Hour == 2
MaxMessages == 2

NullDate == -1
ChannelKinds == {"text", "voice", "none"}

\* repeater.ts lines 102-222 (the Message model): a row of messages as newmessage creates it
\* (part_001 lines 220-235) or with the column defaults: active, never sent,
\* nextRunAt null or a time.  channel is what channel_id resolves to.
MessageRow(ch, next) ==
    [channel |-> ch, repeat_hours |-> 1, times_sent |-> 0,
     lastRunAt |-> NullDate, nextRunAt |-> next, message_active |-> 1]

MessageRows == { MessageRow(ch, next) : ch \in ChannelKinds,
                                         next \in {NullDate, 1, 3} }

\* repeater.ts lines 35-41: the where clause of the query.
due(row, now) ==
    /\ row.message_active = 1
    /\ (row.nextRunAt = NullDate \/ row.nextRunAt <= now)

RECURSIVE orderByNextRunAt(_, _)
\* line 42: order by nextRunAt ascending, nulls first as sqlite sorts them,
\* rows of equal nextRunAt in id order.
orderByNextRunAt(table, ids) ==
    IF ids = {} THEN <<>>
    ELSE LET first == CHOOSE a \in ids : \A b \in ids :
                         \/ table[a].nextRunAt < table[b].nextRunAt
                         \/ (table[a].nextRunAt = table[b].nextRunAt /\ a <= b)
         IN  <<[id |-> first, row |-> table[first]]>>
             \o orderByNextRunAt(table, ids \ {first})

\* lines 34-43: Message.findAll; each instance keeps the values it was read
\* with.
findAll(table, now) ==
    orderByNextRunAt(table, {id \in DOMAIN table : due(table[id], now)})

\* lines 86-92: messageRecord.update after a send; times_sent is computed
\* from the instance, and the three columns are written to the row.
updateSent(table, inst, now) ==
    [table EXCEPT ![inst.id].times_sent = inst.row.times_sent + 1,
                  ![inst.id].lastRunAt = now,
                  ![inst.id].nextRunAt = now + inst.row.repeat_hours * Hour]

\* lines 56, 62: messageRecord.update({ message_active: 0 }).
updateInactive(table, id) == [table EXCEPT ![id].message_active = 0]

sendCatchDeactivate(table, inst) == updateInactive(table, inst.id)

\* lines 94-96: the catch around send and update logs.
sendCatch(table, inst) == table

\* lines 98-100: the outer catch logs and the call is over.
outerCatch(t) == [t EXCEPT !.pc = "done", !.caught = TRUE]

\* lines 51, 97: the loop goes to the next instance or ends.
nextRecord(t) ==
    IF t.i < Len(t.messagesToSend)
    THEN [t EXCEPT !.pc = "fetch", !.i = @ + 1]
    ELSE [t EXCEPT !.pc = "done", !.i = @ + 1]

\* lines 14-22: the module's default export schedules the cron job.
CR_Schedule ==
    /\ ~rep.scheduled
    /\ rep' = [rep EXCEPT !.scheduled = TRUE]
    /\ UNCHANGED <<run, files, forceRefresh, loaded, allBotCommandsData,
                   commandChecksums, ledger, remote, lc, fan, task, hist,
                   faults, ready, loader, pushed, reg, clr, cla, ia>>

\* lines 18-20, 28-32: a minute is over and the job calls
\* sendScheduledMessages, whatever the earlier calls are doing; now is taken.
CR_Tick ==
    /\ rep.scheduled
    /\ rep.clock < MaxClock
    /\ rep' = [rep EXCEPT !.clock = @ + 1,
                          !.ticks = Append(@, [pc |-> "findAll",
                                               now |-> rep.clock + 1,
                                               messagesToSend |-> <<>>,
                                               i |-> 1, caught |-> FALSE])]
    /\ UNCHANGED <<run, files, forceRefresh, loaded, allBotCommandsData,
                   commandChecksums, ledger, remote, lc, fan, task, hist,
                   faults, ready, loader, pushed, reg, clr, cla, ia>>

\* lines 34-49, 98-100: the query; a rejection goes to the outer catch, an
\* empty result ends the call.
SM_FindAll(k) ==
    /\ k \in 1..Len(rep.ticks)
    /\ rep.ticks[k].pc = "findAll"
    /\ \E res \in Results("throw") :
         /\ faults' = charge(res)
         /\ LET found == findAll(rep.messages, rep.ticks[k].now)
            IN  rep' = IF res = "throw"
                       THEN [rep EXCEPT !.ticks[k] = outerCatch(@)]
                       ELSE IF Len(found) = 0
                       THEN [rep EXCEPT !.ticks[k].pc = "done"]
                       ELSE [rep EXCEPT !.ticks[k].pc = "fetch",
                                        !.ticks[k].messagesToSend = found]
    /\ UNCHANGED <<run, files, forceRefresh, loaded, allBotCommandsData,
                   commandChecksums, ledger, remote, lc, fan, task, hist,
                   ready, loader, pushed, reg, clr, cla, ia>>

\* lines 52-64, 98-100: client.channels.fetch, outside the inner try so
\* that its rejection goes to the outer catch, and the two channel tests; the
\* deactivating update is issued and not awaited.
SM_Fetch(k) ==
    /\ k \in 1..Len(rep.ticks)
    /\ rep.ticks[k].pc = "fetch"
    /\ LET t == rep.ticks[k]
           inst == t.messagesToSend[t.i]
       IN  \E res \in Results("throw") :
             /\ faults' = charge(res)
             /\ rep' = IF res = "throw"
                       THEN [rep EXCEPT !.ticks[k] = outerCatch(t)]
                       ELSE IF inst.row.channel # "text"
                       THEN [rep EXCEPT !.ticks[k] = nextRecord(t),
                                        !.floating = @ \cup {inst.id}]
                       ELSE [rep EXCEPT !.ticks[k].pc = "send"]
    /\ UNCHANGED <<run, files, forceRefresh, loaded, allBotCommandsData,
                   commandChecksums, ledger, remote, lc, fan, task, hist,
                   ready, loader, pushed, reg, clr, cla, ia>>

\* lines 56, 62: an update issued without await reaches the table, or is
\* rejected with nobody to catch it.
SM_Floating(id) ==
    /\ id \in rep.floating
    /\ \E res \in Results("throw") :
         /\ faults' = charge(res)
         /\ rep' = [rep EXCEPT !.floating = @ \ {id},
                               !.messages = IF res = "ok"
                                            THEN updateInactive(@, id)
                                            ELSE @]
    /\ UNCHANGED <<run, files, forceRefresh, loaded, allBotCommandsData,
                   commandChecksums, ledger, remote, lc, fan, task, hist,
                   ready, loader, pushed, reg, clr, cla, ia>>

\* lines 66-84, 94-96: channel.send; a rejection goes to the inner catch and
\* the loop goes on.  The log entry of a send keeps the row as the table
\* has it at that moment.
SM_Send(k) ==
    /\ k \in 1..Len(rep.ticks)
    /\ rep.ticks[k].pc = "send"
    /\ LET t == rep.ticks[k]
           inst == t.messagesToSend[t.i]
           entry == [id |-> inst.id, tick |-> k, due |-> inst.row.nextRunAt,
                     row |-> rep.messages[inst.id]]
       IN  \E res \in Results("fail") :
             /\ faults' = charge(res)
             /\ rep' = IF res = "ok"
                       THEN [rep EXCEPT !.ticks[k].pc = "update",
                                        !.sent = @ \cup {entry}]
                       ELSE [rep EXCEPT !.ticks[k] = nextRecord(t),
                                        !.failed = @ \cup {entry},
                                        !.messages = sendCatch(@, inst)]
    /\ UNCHANGED <<run, files, forceRefresh, loaded, allBotCommandsData,
                   commandChecksums, ledger, remote, lc, fan, task, hist,
                   ready, loader, pushed, reg, clr, cla, ia>>

\* lines 86-96: the awaited update after the send; a rejection goes to the
\* same inner catch.
SM_Update(k) ==
    /\ k \in 1..Len(rep.ticks)
    /\ rep.ticks[k].pc = "update"
    /\ LET t == rep.ticks[k]
           inst == t.messagesToSend[t.i]
       IN  \E res \in Results("throw") :
             /\ faults' = charge(res)
             /\ rep' = [rep EXCEPT !.ticks[k] = nextRecord(t),
                                   !.messages = IF res = "ok"
                                                THEN updateSent(@, inst, t.now)
                                                ELSE sendCatch(@, inst)]
    /\ UNCHANGED <<run, files, forceRefresh, loaded, allBotCommandsData,
                   commandChecksums, ledger, remote, lc, fan, task, hist,
                   ready, loader, pushed, reg, clr, cla, ia>>

\* The bot is up with its commands registered (modules/index.ts 21-55 is
\* about to load the module) and the messages table holds MaxMessages rows.
RepInit ==
    /\ run = 1
    /\ files = <<CommandFile("ping", "ping", 1)>>
    /\ forceRefresh = FALSE
    /\ loaded = FALSE
    /\ allBotCommandsData = <<>>
    /\ commandChecksums = <<>>
    /\ ledger = {}
    /\ remote = [s \in Scopes |-> <<>>]
    /\ lc = LcStart
    /\ fan = FanStart
    /\ task = [g \in Guilds |-> TaskIdle]
    /\ hist = [s \in Scopes |-> FreshHist({}, s, FALSE)]
    /\ faults = 0
    /\ ready = ReadyOff
    /\ loader = LoaderIdle
    /\ pushed = {}
    /\ reg = [g \in Guilds |-> TaskIdle]
    /\ clr = [g \in Guilds |-> ClearIdle]
    /\ cla = ClaIdle
    /\ ia = IaNone
    /\ \E table \in [1..MaxMessages -> MessageRows] :
         rep = [RepOff EXCEPT !.messages = table]

RepNext ==
    \/ CR_Schedule
    \/ CR_Tick
    \/ \E k \in 1..MaxClock : SM_FindAll(k)
    \/ \E k \in 1..MaxClock : SM_Fetch(k)
    \/ \E id \in 1..MaxMessages : SM_Floating(id)
    \/ \E k \in 1..MaxClock : SM_Send(k)
    \/ \E k \in 1..MaxClock : SM_Update(k)

RepSpec == RepInit /\ [][RepNext]_vars

\* The tick time of an entry of the send log.
TickTime(e) == rep.ticks[e.tick].now

\* C34: no message is sent twice for the same due time (the nextRunAt it was
\* selected with), ticks overlapping or not.
C34_NoDoubleSend ==
    faults = 0 =>
      \A e1, e2 \in rep.sent :
        (e1.id = e2.id /\ e1.due = e2.due) => e1.tick = e2.tick

\* C35: a tick that is over has gone through every message it selected,
\* whatever failed for one of them: no error left the later ones unhandled.
C35_PerMessageIsolation ==
    \A k \in 1..Len(rep.ticks) :
      rep.ticks[k].pc = "done" =>
        rep.ticks[k].i >= Len(rep.ticks[k].messagesToSend)

\* The accepted sends of message id.
SendsOf(id) == {e \in rep.sent : e.id = id}

\* Every tick started is over and no update is in flight.
Quiet ==
    /\ \A k \in 1..Len(rep.ticks) : rep.ticks[k].pc = "done"
    /\ rep.floating = {}

\* C36: once the ticks are over, every message has times_sent increased by
\* one per accepted send, lastRunAt at the time of the last tick that sent
\* it and nextRunAt repeat_hours later, and two sends of a message are at
\* least repeat_hours apart.
C36_StateAfterSend ==
    (faults = 0 /\ Quiet) =>
      \A id \in DOMAIN rep.messages :
        LET row == rep.messages[id]
            S == SendsOf(id)
        IN  /\ row.times_sent = Cardinality(S)
            /\ \A e \in S :
                 (\A o \in S : TickTime(o) <= TickTime(e)) =>
                   /\ row.lastRunAt = TickTime(e)
                   /\ row.nextRunAt = TickTime(e) + row.repeat_hours * Hour
            /\ \A e, o \in S :
                 e.tick < o.tick =>
                   TickTime(o) >= TickTime(e) + row.repeat_hours * Hour

\* The ids of the instances a tick selected.
Selected(t) == {t.messagesToSend[j].id : j \in 1..Len(t.messagesToSend)}

\* The query of a tick returned (it is neither pending nor rejected).
Queried(t) ==
    /\ t.pc # "findAll"
    /\ ~(t.caught /\ t.messagesToSend = <<>>)

\* C37: after a rejected send of a message that no tick has sent, its row
\* is as it was at the send (times_sent, lastRunAt, nextRunAt and
\* message_active unchanged), it is still due, and every later tick whose
\* query returned has selected it again.
C37_FailedSendRetried ==
    \A e \in rep.failed :
      SendsOf(e.id) = {} =>
        /\ rep.messages[e.id] = e.row
        /\ due(rep.messages[e.id], TickTime(e))
        /\ \A k \in (e.tick + 1)..Len(rep.ticks) :
             Queried(rep.ticks[k]) => e.id \in Selected(rep.ticks[k])

\* The send of a message was rejected in one tick and the next tick has the
\* message at its send again.
C37_Witness ==
    \E e \in rep.failed :
      /\ SendsOf(e.id) = {}
      /\ e.tick < Len(rep.ticks)
      /\ LET t == rep.ticks[e.tick + 1]
         IN  /\ t.pc = "send"
             /\ t.messagesToSend[t.i].id = e.id
             /\ rep.ticks[e.tick].pc = "done"

\* C38: a message is sent in a tick only while its row is active with
\* nextRunAt null or not later than the tick time, and only to a text
\* channel; once the ticks are over a message whose channel is missing or
\* not a text channel is inactive and was never sent.
C38_Eligibility ==
    faults = 0 =>
      /\ \A e \in rep.sent :
           /\ due(e.row, TickTime(e))
           /\ e.row.channel = "text"
      /\ Quiet =>
           \A k \in 1..Len(rep.ticks) :
             \A id \in Selected(rep.ticks[k]) :
               rep.messages[id].channel # "text" =>
                 /\ rep.messages[id].message_active = 0
                 /\ SendsOf(id) = {}

=============================================================================
